---- MODULE Spec2Model ----
(***************************************************************************)
(* Documentation indexing and retrieval core of the repository:            *)
(*   semantic_memory/indexer.py   index_repo, extract_metadata_with_ai     *)
(*   lib/vector_search.py         find_relevant_docs, _cosine_sim          *)
(* The MongoDB collection readme_chunks is a sequence of documents in      *)
(* insertion order (the natural order of an unsorted find).  Text is a     *)
(* sequence of characters over a four-letter alphabet that contains        *)
(* everything the chunker looks at: newline, '#', space and one letter.    *)
(***************************************************************************)
EXTENDS Integers, Sequences, FiniteSets, TLC

\* ------------------------------------------------------------------ bounds
\* longest markdown text enumerated by the chunker specification
MaxLen == 7
\* index_repo calls started in one behaviour of the store specification
MaxRuns == 2
\* documents in the collection of the retrieval specification
MaxChunks == 3

\* ------------------------------------------------------------------ text
NL == "\n"
HASH == "#"
SP == " "
LETTER == "a"
Alphabet == {NL, HASH, SP, LETTER}
Whitespace == {NL, SP}

\* content.split("\n## "): the separator consumed by the split
HeaderSep == <<NL, HASH, HASH, SP>>
\* f"## {section}": the marker put back in front of every section but the first
HeaderMarker == <<HASH, HASH, SP>>
\* the label of the first section of a file
Introduction == <<"Introduction">>

\* all texts of length at most n
RECURSIVE TextsUpTo(_)
TextsUpTo(n) ==
    IF n = 0 THEN {<<>>}
    ELSE LET shorter == TextsUpTo(n - 1)
         IN shorter \cup {Append(t, c) : t \in {s \in shorter : Len(s) = n - 1}, c \in Alphabet}

\* sep occurs in s at position i
OccursAt(s, sep, i) ==
    /\ i + Len(sep) - 1 <= Len(s)
    /\ SubSeq(s, i, i + Len(sep) - 1) = sep

\* str.split(sep): the pieces between the leftmost non-overlapping
\* occurrences of sep; always at least one piece
RECURSIVE SplitFrom(_, _, _, _)
SplitFrom(s, sep, i, start) ==
    IF i > Len(s) THEN <<SubSeq(s, start, Len(s))>>
    ELSE IF OccursAt(s, sep, i)
         THEN <<SubSeq(s, start, i - 1)>> \o SplitFrom(s, sep, i + Len(sep), i + Len(sep))
         ELSE SplitFrom(s, sep, i + 1, start)

Split(s, sep) == SplitFrom(s, sep, 1, 1)

\* s.strip() is the empty string
IsBlank(s) == \A i \in 1..Len(s) : s[i] \in Whitespace

\* sections = [s for s in content.split("\n## ") if s.strip()]
Sections(content) == SelectSeq(Split(content, HeaderSep), LAMBDA s : ~IsBlank(s))

\* header = section.split("\n")[0] if i > 0 else "Introduction"   (i is 0-based)
Header(i, section) == IF i > 0 THEN Split(section, <<NL>>)[1] ELSE Introduction

\* full_text = f"## {section}" if i > 0 else section
FullText(i, section) == IF i > 0 THEN HeaderMarker \o section ELSE section

\* ------------------------------------------------------------------ corpus
\* A corpus is what os.walk(repo_path) finds: a sequence of files, each with
\* a name, an extension, its text and whether open()/read() succeeds.
File(name, ext, text, readable) ==
    [name |-> name, ext |-> ext, text |-> text, readable |-> readable]

\* file.lower() on the extension
Lower(ext) == IF ext = ".MD" THEN ".md" ELSE ext

\* file.lower().endswith('.md')
IsMarkdown(f) == Lower(f.ext) = ".md"

\* os.path.join(root, file)
PathOf(f) == <<f.name, f.ext>>

RepoPaths == {"docs", "nomd", "emptymd"}
\* the corpora build_graph is called on: one more, whose file has two
\* sections under the same header
GraphPaths == RepoPaths \cup {"twice"}

Corpus(repo_path) ==
    CASE repo_path = "docs" ->
           << File("README", ".MD", <<LETTER, NL, HASH, HASH, SP, LETTER>>, TRUE),
              File("guide", ".md", <<NL, HASH, HASH, SP, LETTER>>, TRUE) >>
      [] repo_path = "nomd" ->
           << File("notes", ".txt", <<LETTER>>, TRUE) >>
      [] repo_path = "emptymd" ->
           << File("README", ".md", <<SP>>, TRUE) >>
      [] repo_path = "twice" ->
           << File("api", ".md", <<LETTER, NL, HASH, HASH, SP, LETTER,
                                   NL, HASH, HASH, SP, LETTER>>, TRUE) >>

\* md_files: the files of the walk that pass the extension filter
MdFiles(files) == SelectSeq(files, IsMarkdown)

\* ------------------------------------------------------------------ metadata
\* What the Fireworks call does for one section: it raises or returns text
\* json.loads rejects ("error"), or it returns a JSON object with all three
\* keys ("full") or with one of them missing.
LLMResponses == {"error", "full", "no_clean_text", "no_summary", "no_keywords"}
\* those the store specification draws from
StoreResponses == {"error", "full", "no_clean_text"}

GeneralSection == "General section"
AISummary == "summary"
AIKeywords == <<"kw">>

\* the "clean_text" a successful extraction returns: the text without junk
CleanText(text) == SelectSeq(text, LAMBDA c : c \notin {HASH, SP, NL})

\* json.loads(response.choices[0].message.content): the object the call returned
ParsedMetadata(text, resp) ==
    CASE resp = "no_clean_text" -> [summary |-> AISummary, keywords |-> AIKeywords]
      [] resp = "no_summary" -> [keywords |-> AIKeywords, clean_text |-> CleanText(text)]
      [] resp = "no_keywords" -> [summary |-> AISummary, clean_text |-> CleanText(text)]
      [] OTHER -> [summary |-> AISummary, keywords |-> AIKeywords, clean_text |-> CleanText(text)]

ExtractMetadata(text, resp) ==
    IF resp = "error"
    THEN [summary |-> GeneralSection, keywords |-> <<>>, clean_text |-> text]
    ELSE ParsedMetadata(text, resp)

\* meta.get(key, default)
Get(meta, key, default) == IF key \in DOMAIN meta THEN meta[key] ELSE default

\* meta['clean_text'] or meta['summary'] raises KeyError
MetaRaises(meta) == "clean_text" \notin DOMAIN meta \/ "summary" \notin DOMAIN meta

\* ------------------------------------------------------------------ chunks
\* enumerate(sections): pairs of 0-based index and section text
Enumerate(sections) == [k \in 1..Len(sections) |-> [i |-> k - 1, section |-> sections[k]]]

\* the pieces of the split numbered before the empty ones are dropped
NumberedSectionsBeforeFilter(content) ==
    SelectSeq(Enumerate(Split(content, HeaderSep)), LAMBDA e : ~IsBlank(e.section))

\* for i, section in enumerate(sections)
NumberedSections(content) == Enumerate(Sections(content))

\* one all_docs entry (without its embedding), lines 84-109
SectionDoc(repo_name, file_path, e, use_librarian, resp) ==
    LET header == Header(e.i, e.section)
        full_text == FullText(e.i, e.section)
        meta == IF use_librarian THEN ExtractMetadata(full_text, resp)
                ELSE [summary |-> "", keywords |-> <<>>]
        content_text == IF use_librarian THEN meta.clean_text ELSE full_text
        rich_text == IF use_librarian
                     THEN <<file_path, meta.summary, Get(meta, "keywords", <<>>), content_text>>
                     ELSE <<file_path, content_text>>
    IN [repo_name |-> repo_name,
        file_path |-> file_path,
        section_name |-> header,
        content |-> content_text,
        rich_text_for_embedding |-> rich_text,
        metadata |-> [section_index |-> e.i,
                      summary |-> Get(meta, "summary", ""),
                      keywords |-> Get(meta, "keywords", <<>>)]]

\* the all_docs entries of one file; resps[k] is what the extraction call
\* does for the k-th section
FileDocs(repo_name, file_path, content, use_librarian, resps) ==
    LET numbered == NumberedSections(content)
    IN [k \in 1..Len(numbered) |->
          SectionDoc(repo_name, file_path, numbered[k], use_librarian, resps[k])]

\* some section of the file makes index_repo raise KeyError
FileRaises(content, use_librarian, resps) ==
    LET numbered == NumberedSections(content)
    IN /\ use_librarian
       /\ \E k \in 1..Len(numbered) :
            MetaRaises(ExtractMetadata(FullText(numbered[k].i, numbered[k].section), resps[k]))

\* all_docs after the loop over md_files (lines 68-109); an unreadable file
\* is skipped; resps[used + k] is what the extraction call does for the
\* k-th section of the next file
RECURSIVE BuildDocs(_, _, _, _, _)
BuildDocs(repo_name, files, use_librarian, resps, used) ==
    IF files = <<>> THEN <<>>
    ELSE LET f == Head(files)
             n == Len(NumberedSections(f.text))
         IN IF ~f.readable
            THEN BuildDocs(repo_name, Tail(files), use_librarian, resps, used)
            ELSE FileDocs(repo_name, PathOf(f), f.text, use_librarian,
                          [k \in 1..n |-> resps[used + k]])
                 \o BuildDocs(repo_name, Tail(files), use_librarian, resps, used + n)

\* the loop raises KeyError at some section
RECURSIVE BuildRaises(_, _, _, _)
BuildRaises(files, use_librarian, resps, used) ==
    IF files = <<>> THEN FALSE
    ELSE LET f == Head(files)
             n == Len(NumberedSections(f.text))
         IN IF ~f.readable
            THEN BuildRaises(Tail(files), use_librarian, resps, used)
            ELSE \/ FileRaises(f.text, use_librarian, [k \in 1..n |-> resps[used + k]])
                 \/ BuildRaises(Tail(files), use_librarian, resps, used + n)

\* number of sections the loop visits
RECURSIVE CountSections(_)
CountSections(files) ==
    IF files = <<>> THEN 0
    ELSE (IF Head(files).readable THEN Len(NumberedSections(Head(files).text)) ELSE 0)
         + CountSections(Tail(files))

\* ------------------------------------------------------------------ provider
\* vo.embed(texts, model="voyage-code-3", input_type="document"): the vector
\* of one text; the last component of the enriched text is the content
VoyageEmbed(rich_text) ==
    LET content_text == rich_text[Len(rich_text)]
    IN <<1, (Len(content_text) % 3) - 1>>

\* for i, emb in enumerate(embeddings): all_docs[i]["embedding"] = emb
WithEmbeddings(docs) ==
    [k \in 1..Len(docs) |->
        [f \in DOMAIN docs[k] \cup {"embedding"} |->
            IF f = "embedding" THEN VoyageEmbed(docs[k].rich_text_for_embedding)
            ELSE docs[k][f]]]

\* ------------------------------------------------------------------ store
\* a delete_many whose filter matches no document
DeleteManyNothing(col, repo_name) == col

\* collection.delete_many({"repo_name": repo_name})
DeleteMany(col, repo_name) == SelectSeq(col, LAMBDA d : d.repo_name # repo_name)

\* a replace-by-key write: what an upsert on (repo_name, file_path, section_index) would do
ChunkKey(d) == <<d.repo_name, d.file_path, d.metadata.section_index>>
InsertManyUpsert(col, docs) ==
    SelectSeq(col, LAMBDA d : \A k \in 1..Len(docs) : ChunkKey(docs[k]) # ChunkKey(d)) \o docs

\* collection.insert_many(all_docs)
InsertMany(col, docs) == col \o docs

\* the documents of one repository, in storage order
StoreOf(col, repo_name) == SelectSeq(col, LAMBDA d : d.repo_name = repo_name)

\* ------------------------------------------------------------------ scores
\* A similarity dot/(|a|*|b|) is kept exactly, as the fraction n/d in lowest
\* terms of its signed square sign(dot)*dot^2 / (|a|^2*|b|^2): squaring with
\* the sign kept is strictly increasing on [-1, 1], so scores compare, and
\* are equal, exactly as the cosines do.
RECURSIVE Gcd(_, _)
Gcd(x, y) == IF y = 0 THEN x ELSE Gcd(y, x % y)

Abs(x) == IF x < 0 THEN -x ELSE x

Fraction(n, d) == LET g == Gcd(Abs(n), d) IN [n |-> n \div g, d |-> d \div g]

\* return -1.0
Sentinel == Fraction(-1, 1)

ScoreGt(x, y) == x.n * y.d > y.n * x.d
ScoreGe(x, y) == x.n * y.d >= y.n * x.d

\* sum(a[i] * b[i] for i in range(n))
RECURSIVE Dot(_, _, _)
Dot(a, b, n) == IF n = 0 THEN 0 ELSE a[n] * b[n] + Dot(a, b, n - 1)

Min(x, y) == IF x <= y THEN x ELSE y
Max(x, y) == IF x >= y THEN x ELSE y

\* a _cosine_sim whose norms run over the whole vectors, not the first n components
CosineSimWholeNorms(a, b) ==
    IF a = <<>> \/ b = <<>> THEN Sentinel
    ELSE LET n == Min(Len(a), Len(b))
             dot == Dot(a, b, n)
             na2 == Dot(a, a, Len(a))
             nb2 == Dot(b, b, Len(b))
         IN IF na2 = 0 \/ nb2 = 0 THEN Sentinel
            ELSE Fraction((IF dot < 0 THEN -1 ELSE 1) * dot * dot, na2 * nb2)

\* _cosine_sim(a, b)
CosineSim(a, b) ==
    IF a = <<>> \/ b = <<>> THEN Sentinel
    ELSE LET n == Min(Len(a), Len(b))
             dot == Dot(a, b, n)
             na2 == Dot(a, a, n)
             nb2 == Dot(b, b, n)
         IN IF na2 = 0 \/ nb2 = 0 THEN Sentinel
            ELSE Fraction((IF dot < 0 THEN -1 ELSE 1) * dot * dot, na2 * nb2)

\* ------------------------------------------------------------------ retrieval
\* a query without the repo_name condition
FindChunksAnyRepo(col, repo_name) ==
    SelectSeq(col, LAMBDA d : "embedding" \in DOMAIN d)

\* col.find({"repo_name": repo_name, "embedding": {"$exists": True}})
FindChunks(col, repo_name) ==
    SelectSeq(col, LAMBDA d : d.repo_name = repo_name /\ "embedding" \in DOMAIN d)

\* position of file_path fp in best, or 0
PosOf(best, fp) ==
    IF \E k \in 1..Len(best) : best[k][1] = fp
    THEN CHOOSE k \in 1..Len(best) : best[k][1] = fp
    ELSE 0

\* one round of the loop of lines 108-118 that keeps the last score seen
\* instead of the best one
ScoreChunkKeepLast(best, doc, query_emb) ==
    IF doc.embedding = <<>> \/ "file_path" \notin DOMAIN doc THEN best
    ELSE LET score == CosineSim(query_emb, doc.embedding)
             k == PosOf(best, doc.file_path)
         IN IF k = 0 THEN Append(best, <<doc.file_path, score>>)
            ELSE [best EXCEPT ![k] = <<doc.file_path, score>>]

\* one round of the loop of lines 108-118; best_scores is a dict, kept here
\* as the sequence of its items in insertion order
ScoreChunk(best, doc, query_emb) ==
    IF doc.embedding = <<>> \/ "file_path" \notin DOMAIN doc THEN best
    ELSE LET score == CosineSim(query_emb, doc.embedding)
             k == PosOf(best, doc.file_path)
         IN IF k = 0 THEN Append(best, <<doc.file_path, score>>)
            ELSE IF ScoreGt(score, best[k][2])
                 THEN [best EXCEPT ![k] = <<doc.file_path, score>>]
                 ELSE best

RECURSIVE BestScores(_, _, _)
BestScores(docs, n, query_emb) ==
    IF n = 0 THEN <<>>
    ELSE ScoreChunk(BestScores(docs, n - 1, query_emb), docs[n], query_emb)

\* a descending sort that is not stable: of two equal scores the later comes first
RECURSIVE InsertSortedTiesReversed(_, _)
InsertSortedTiesReversed(sorted, item) ==
    IF sorted = <<>> THEN <<item>>
    ELSE IF ScoreGe(item[2], Head(sorted)[2])
         THEN <<item>> \o sorted
         ELSE <<Head(sorted)>> \o InsertSortedTiesReversed(Tail(sorted), item)

\* sorted(items, key=lambda kv: kv[1], reverse=True): stable, descending
RECURSIVE InsertSorted(_, _)
InsertSorted(sorted, item) ==
    IF sorted = <<>> THEN <<item>>
    ELSE IF ScoreGt(item[2], Head(sorted)[2])
         THEN <<item>> \o sorted
         ELSE <<Head(sorted)>> \o InsertSorted(Tail(sorted), item)

RECURSIVE SortedDesc(_, _)
SortedDesc(items, n) ==
    IF n = 0 THEN <<>> ELSE InsertSorted(SortedDesc(items, n - 1), items[n])

\* min_score is None; a threshold s is the one-element sequence <<s>>
NoMinScore == <<>>

\* results[:top_k + 1]
SliceOneMore(results, top_k) ==
    IF top_k + 1 >= 0 THEN SubSeq(results, 1, Min(top_k + 1, Len(results)))
    ELSE SubSeq(results, 1, Max(0, Len(results) + top_k + 1))

\* results[:top_k], with Python's meaning of a negative bound
Slice(results, top_k) ==
    IF top_k >= 0 THEN SubSeq(results, 1, Min(top_k, Len(results)))
    ELSE SubSeq(results, 1, Max(0, Len(results) + top_k))

\* lines 106-126, given the documents read and the query embedding
RankDocs(docs, query_emb, top_k, min_score) ==
    LET best_scores == BestScores(docs, Len(docs), query_emb)
        results == SortedDesc(best_scores, Len(best_scores))
        kept == IF min_score = NoMinScore THEN results
                ELSE SelectSeq(results, LAMBDA r : ScoreGe(r[2], min_score[1]))
    IN Slice(kept, top_k)

\* find_relevant_docs, given the collection and the query embedding
FindRelevantDocs(col, query_emb, repo_name, top_k, min_score) ==
    LET docs == FindChunks(col, repo_name)
    IN IF Len(docs) = 0 THEN <<>> ELSE RankDocs(docs, query_emb, top_k, min_score)

\* ------------------------------------------------------------------ query embedding
\* vec = [0.0] * 128
LocalDim == 128
\* (ord(ch) % 97) / 97.0
HashMod == 97
\* text[:4096]
MaxHashed == 4096

\* ord(ch)
Ord(ch) ==
    CASE ch = NL -> 10
      [] ch = SP -> 32
      [] ch = HASH -> 35
      [] ch = LETTER -> 97

\* The local fallback of embed_text (lines 55-59), scaled by 97 and left
\* unnormalised: a similarity does not change when a vector is multiplied by a
\* positive number, and a zero vector stays zero (norm "or 1.0").
RECURSIVE HashChars(_, _, _)
HashChars(vec, text, i) ==
    IF i >= Min(Len(text), MaxHashed) THEN vec
    ELSE HashChars([vec EXCEPT ![(i % LocalDim) + 1] = @ + (Ord(text[i + 1]) % HashMod)],
                   text, i + 1)

LocalEmbed(text) == HashChars([j \in 1..LocalDim |-> 0], text, 0)

\* vo.embed([text], model=model, input_type="query").embeddings[0]
VoyageQueryEmbed(text) == <<(Len(text) % 3) - 1, 1>>

\* embed_text(text): the provider's vector, or the local one when no key is
\* set or the call raises
EmbedText(text, provider_ok) ==
    IF provider_ok THEN VoyageQueryEmbed(text) ELSE LocalEmbed(text)

\* an embed_text that lets the provider's exception through
EmbedTextPropagates(text, provider_ok) == ~provider_ok

\* embed_text(text) raises: never, the provider call sits in a try whose
\* except clause (lines 51-52) logs and falls through to the local vector
EmbedTextRaises(text, provider_ok) == FALSE

\* ------------------------------------------------------------------ knowledge graph
\* the five lists the prompt of extract_code_entities asks for
GraphFields == {"functions", "endpoints", "classes", "variables", "dependencies"}

\* {"functions": [], "endpoints": [], "classes": [], "variables": [], "dependencies": []}
EmptyEntities == [f \in GraphFields |-> <<>>]

\* What the Fireworks call does for one section: ok = FALSE when it raises or
\* returns text json.loads rejects, else json is the object it returned.
\* extract_code_entities(text), lines 12-45
ExtractCodeEntities(text, resp) == IF resp.ok THEN resp.json ELSE EmptyEntities

\* an extract_code_entities that lets the exception through
ExtractPropagates(resp) == ~resp.ok

\* extract_code_entities raises: never, lines 39-45 catch every Exception
ExtractRaises(resp) == FALSE

\* f"{repo_name}:{file_path}:{header}"
SectionId(repo_name, file_path, header) == <<repo_name, file_path, header>>

\* f"{repo_name}:function:{func}", f"{repo_name}:endpoint:{endpoint}"
EntityId(repo_name, entity_type, name) == <<repo_name, entity_type, name>>

\* x in s
InSeq(x, s) == \E i \in 1..Len(s) : s[i] = x

\* the position of entity_id in code_entities_dict (kept as the sequence of
\* its values in insertion order), or 0
PosOfEntity(code, entity_id) ==
    IF \E k \in 1..Len(code) : code[k].entity_id = entity_id
    THEN CHOOSE k \in 1..Len(code) : code[k].entity_id = entity_id
    ELSE 0

\* full_text[:200]
SearchableLen == 200

\* the lists the loop fills: all_entities, all_relationships,
\* code_entities_dict and section_index (lines 75-78)
NoLists == [all_entities |-> <<>>, all_relationships |-> <<>>,
            code_entities |-> <<>>, section_index |-> <<>>]

\* one round of the loop over entities.get("functions", []) (lines 115-137)
\* or over entities.get("endpoints", []) (lines 140-159); only the first
\* records the header in metadata.extracted_from
AddCodeEntity(acc, entity_type, name, repo_name, file_path, section_id, header) ==
    LET entity_id == EntityId(repo_name, entity_type, name)
        fresh == [entity_id |-> entity_id, entity_type |-> entity_type, name |-> name,
                  repo_name |-> repo_name, related_sections |-> <<>>,
                  file_path |-> file_path, metadata |-> [extracted_from |-> <<>>]]
        code == IF PosOfEntity(acc.code_entities, entity_id) = 0
                THEN Append(acc.code_entities, fresh) ELSE acc.code_entities
        k == PosOfEntity(code, entity_id)
        seen == [code[k] EXCEPT !.related_sections = Append(@, section_id)]
        noted == IF entity_type = "function" /\ ~InSeq(header, seen.metadata.extracted_from)
                 THEN [seen EXCEPT !.metadata.extracted_from = Append(@, header)]
                 ELSE seen
    IN [acc EXCEPT
          !.code_entities = [code EXCEPT ![k] = noted],
          !.all_relationships =
              Append(@, [type |-> "describes", from_entity_id |-> section_id,
                         to_entity_id |-> entity_id, repo_name |-> repo_name,
                         relationship_type |-> <<"section_describes", entity_type>>])]

RECURSIVE AddCodeEntities(_, _, _, _, _, _, _, _)
AddCodeEntities(acc, entity_type, names, n, repo_name, file_path, section_id, header) ==
    IF n = 0 THEN acc
    ELSE AddCodeEntity(AddCodeEntities(acc, entity_type, names, n - 1, repo_name, file_path,
                                       section_id, header),
                       entity_type, names[n], repo_name, file_path, section_id, header)

\* one round of the loop over the sections of a file (lines 93-168)
AddSection(acc, repo_name, file_path, e, total, resp) ==
    LET header == Header(e.i, e.section)
        full_text == FullText(e.i, e.section)
        section_id == SectionId(repo_name, file_path, header)
        entities == ExtractCodeEntities(full_text, resp)
        section_entity == [entity_id |-> section_id, entity_type |-> "section",
                           repo_name |-> repo_name, file_path |-> file_path,
                           section_name |-> header, section_index |-> e.i,
                           content |-> full_text,
                           metadata |-> [total_sections_in_file |-> total, position |-> e.i]]
        functions == Get(entities, "functions", <<>>)
        endpoints == Get(entities, "endpoints", <<>>)
        acc1 == [acc EXCEPT !.all_entities = Append(@, section_entity)]
        acc2 == AddCodeEntities(acc1, "function", functions, Len(functions), repo_name,
                                file_path, section_id, header)
        acc3 == AddCodeEntities(acc2, "endpoint", endpoints, Len(endpoints), repo_name,
                                file_path, section_id, header)
    IN [acc3 EXCEPT !.section_index =
          Append(@, [repo_name |-> repo_name, section_id |-> section_id,
                     file_path |-> file_path, section_name |-> header,
                     searchable_text |->
                         <<header, SubSeq(full_text, 1, Min(SearchableLen, Len(full_text)))>>])]

\* the sections of one file, from the first to the n-th; resps[used + k] is
\* what the extraction call does for the k-th
RECURSIVE AddSections(_, _, _, _, _, _, _)
AddSections(acc, repo_name, file_path, numbered, n, resps, used) ==
    IF n = 0 THEN acc
    ELSE AddSection(AddSections(acc, repo_name, file_path, numbered, n - 1, resps, used),
                    repo_name, file_path, numbered[n], Len(numbered), resps[used + n])

\* the loop over md_files (lines 81-168); an unreadable file is skipped
RECURSIVE GraphLists(_, _, _, _, _)
GraphLists(acc, repo_name, files, resps, used) ==
    IF files = <<>> THEN acc
    ELSE LET f == Head(files)
             numbered == NumberedSections(f.text)
         IN IF ~f.readable
            THEN GraphLists(acc, repo_name, Tail(files), resps, used)
            ELSE GraphLists(AddSections(acc, repo_name, PathOf(f), numbered, Len(numbered),
                                        resps, used),
                            repo_name, Tail(files), resps, used + Len(numbered))

\* four delete_many whose filter matches no document
ClearGraphNothing(g, repo_name) == g

\* the four delete_many of lines 59-62
ClearGraph(g, repo_name) ==
    [c \in DOMAIN g |-> SelectSeq(g[c], LAMBDA d : d.repo_name # repo_name)]

\* the four guarded insert_many of lines 173-180
InsertGraph(g, lists) ==
    [knowledge_entities |-> g.knowledge_entities \o lists.all_entities,
     knowledge_relationships |-> g.knowledge_relationships \o lists.all_relationships,
     code_entities |-> g.code_entities \o lists.code_entities,
     section_index |-> g.section_index \o lists.section_index]

\* get_code_entities_by_section(repo_name, section_id), lines 202-216
GetCodeEntitiesBySection(g, repo_name, section_id) ==
    LET relationships == SelectSeq(g.knowledge_relationships,
                                   LAMBDA rel : /\ rel.repo_name = repo_name
                                                /\ rel.from_entity_id = section_id
                                                /\ rel.type = "describes")
        entity_ids == {relationships[k].to_entity_id : k \in 1..Len(relationships)}
    IN IF entity_ids = {} THEN <<>>
       ELSE SelectSeq(g.code_entities,
                      LAMBDA d : d.entity_id \in entity_ids /\ d.repo_name = repo_name)

\* stats, lines 182-187
Stats(lists) ==
    [entities |-> Len(lists.all_entities), code_entities |-> Len(lists.code_entities),
     relationships |-> Len(lists.all_relationships), sections |-> Len(lists.section_index)]

\* ------------------------------------------------------------------ state
VARIABLES
    fs,             \* repo_path -> the files under it
    readme_chunks,  \* the collection, in insertion order
    pc,             \* per caller: the step of index_repo it is about to take
    run,            \* per caller: the locals of its index_repo call
    last,           \* per repo_name: the index_repo call that ended last: how it ended,
                    \* its all_docs, and how the stored chunks of repo_name at its end
                    \* compare with those at its start (pre)
    prev,           \* per repo_name: the call that ended before that one
    overlap,        \* per repo_name: two calls for it have been in progress at once
    oplog,          \* per repo_name: the writes since no call for it was in progress
    runs,           \* index_repo calls started
    hits,           \* the last find_relevant_docs call since the last delete_many
    found,          \* the last find_relevant_doc call
    sim,            \* the last _cosine_sim call
    kg,             \* the four graph collections, each in insertion order
    built,          \* the last build_graph call
    hook            \* the webhook secret configured and the last request handled

vars == <<fs, readme_chunks, pc, run, last, prev, overlap, oplog, runs, hits, found, sim, kg, built, hook>>
\* the files, the chunk collection and the calls of index_repo and find_relevant_docs
storeVars == <<fs, readme_chunks, pc, run, last, prev, overlap, oplog, runs, hits>>

Procs == {"w1", "w2"}
Repos == {"r1", "r2"}
\* the repo_name the callers index; the other one was indexed beforehand
Targets == {"r1"}
DiffTexts == {<<HASH, SP>>}
\* top_k: int = 6
DefaultTopK == 6

\* the three steps of lines 111-124 with the delete moved to the front
StepOrderDeleteFirst == <<"delete", "embed", "insert">>
\* lines 111-124: embed the batch, delete the old chunks, insert the new ones
StepOrder == <<"embed", "delete", "insert">>

StepAfter(step) ==
    LET k == CHOOSE j \in 1..Len(StepOrder) : StepOrder[j] = step
    IN IF k = Len(StepOrder) THEN "idle" ELSE StepOrder[k + 1]

IdleRun == [repo_path |-> "", repo_name |-> "", use_librarian |-> FALSE,
            all_docs |-> <<>>, pre |-> <<>>, done |-> {}]
NoCall == [outcome |-> "none"]
NoHits == [repo_name |-> ""]
NoFound == [repo_name |-> ""]
NoSim == [called |-> FALSE]
NoBuild == [outcome |-> "none", calls |-> 0]
\* no request has arrived; GITHUB_WEBHOOK_SECRET is not set
NoHook == [secret |-> "", handled |-> FALSE]
\* the graph collections of a fresh database
NoGraph == [knowledge_entities |-> <<>>, knowledge_relationships |-> <<>>,
            code_entities |-> <<>>, section_index |-> <<>>]

\* nothing but index_repo and find_relevant_docs has been called
OthersIdle ==
    found = NoFound /\ sim = NoSim /\ kg = NoGraph /\ built = NoBuild /\ hook = NoHook

\* no index_repo call for repo_name is in progress
NoActive(repo_name) == \A p \in Procs : pc[p] = "idle" \/ run[p].repo_name # repo_name

\* the collection after index_repo("docs", "r2", use_librarian=False)
Indexed(repo_path, repo_name) ==
    LET md_files == MdFiles(Corpus(repo_path))
    IN WithEmbeddings(BuildDocs(repo_name, md_files, FALSE,
                                [k \in 1..CountSections(md_files) |-> "error"], 0))

Init ==
    /\ fs = [rp \in RepoPaths |-> Corpus(rp)]
    /\ readme_chunks = Indexed("docs", "r2")
    /\ pc = [p \in Procs |-> "idle"]
    /\ run = [p \in Procs |-> IdleRun]
    /\ last = [r \in Repos |-> NoCall]
    /\ prev = [r \in Repos |-> NoCall]
    /\ overlap = [r \in Repos |-> FALSE]
    /\ oplog = [r \in Repos |-> <<>>]
    /\ runs = 0
    /\ hits = NoHits
    /\ OthersIdle

\* ------------------------------------------------------------------ index_repo
\* what a chunk is compared by: (file_path, section_name, section_index, content)
Core(docs) ==
    [k \in 1..Len(docs) |->
        <<docs[k].file_path, docs[k].section_name, docs[k].metadata.section_index,
          docs[k].content>>]

\* what prev keeps of a call: how it ended and what it was asked
Brief(call) ==
    IF call.outcome = "none" THEN call
    ELSE [outcome |-> call.outcome, at |-> call.at, repo_path |-> call.repo_path,
          use_librarian |-> call.use_librarian]

\* the call of p ends: it returns or raises
Return(p, rn, outcome, at, col) ==
    /\ pc' = [pc EXCEPT ![p] = "idle"]
    /\ run' = [run EXCEPT ![p] = IdleRun]
    /\ prev' = [prev EXCEPT ![rn.repo_name] = Brief(last[rn.repo_name])]
    /\ last' = [last EXCEPT ![rn.repo_name] =
                  [outcome |-> outcome, at |-> at, repo_path |-> rn.repo_path,
                   use_librarian |-> rn.use_librarian, docs |-> rn.all_docs,
                   done |-> rn.done,
                   had |-> rn.pre # <<>>,
                   unchanged |-> StoreOf(col, rn.repo_name) = rn.pre,
                   same_core |-> Core(StoreOf(col, rn.repo_name)) = Core(rn.pre)]]

\* p has finished a step: the next one, or the return after the last
Proceed(p, rn, step, col) ==
    IF StepAfter(step) = "idle"
    THEN Return(p, rn, "returned", "done", col)
    ELSE /\ pc' = [pc EXCEPT ![p] = StepAfter(step)]
         /\ run' = [run EXCEPT ![p] = rn]
         /\ UNCHANGED <<last, prev>>

\* lines 51-109: the walk, the early return, the loop that builds all_docs
IndexRepo(p, repo_path, repo_name, use_librarian, resps) ==
    /\ pc[p] = "idle"
    /\ runs < MaxRuns
    /\ runs' = runs + 1
    /\ overlap' = [overlap EXCEPT ![repo_name] =
                     @ \/ \E q \in Procs \ {p} : pc[q] # "idle" /\ run[q].repo_name = repo_name]
    /\ oplog' = [oplog EXCEPT ![repo_name] = IF NoActive(repo_name) THEN <<>> ELSE @]
    /\ UNCHANGED <<fs, readme_chunks, hits, found, sim, kg, built, hook>>
    /\ LET md_files == MdFiles(fs[repo_path])
           rn == [repo_path |-> repo_path, repo_name |-> repo_name,
                  use_librarian |-> use_librarian, all_docs |-> <<>>,
                  pre |-> StoreOf(readme_chunks, repo_name), done |-> {}]
       IN IF md_files = <<>>
          THEN Return(p, rn, "returned", "no_md", readme_chunks)
          ELSE IF BuildRaises(md_files, use_librarian, resps, 0)
          THEN Return(p, rn, "raised", "metadata", readme_chunks)
          ELSE /\ pc' = [pc EXCEPT ![p] = StepOrder[1]]
               /\ run' = [run EXCEPT ![p] =
                            [rn EXCEPT !.all_docs =
                               BuildDocs(repo_name, md_files, use_librarian, resps, 0)]]
               /\ UNCHANGED <<last, prev>>

\* what the extraction calls of one index_repo call do, section by section:
\* here the same for every section of the call, and nothing without enrichment
RespChoices(files, use_librarian) ==
    {[k \in 1..CountSections(MdFiles(files)) |-> resp] :
        resp \in IF use_librarian THEN StoreResponses ELSE {"error"}}

\* lines 113-120: the batch embedding call returns
EmbedBatch(p) ==
    /\ pc[p] = "embed"
    /\ Proceed(p, [run[p] EXCEPT !.all_docs = WithEmbeddings(@), !.done = @ \cup {"embed"}],
               "embed", readme_chunks)
    /\ UNCHANGED <<fs, readme_chunks, overlap, oplog, runs, hits, found, sim, kg, built, hook>>

\* lines 113-117: the batch embedding call raises, and so does index_repo
EmbedRaises(p) ==
    /\ pc[p] = "embed"
    /\ Return(p, run[p], "raised", "embed", readme_chunks)
    /\ UNCHANGED <<fs, readme_chunks, overlap, oplog, runs, hits, found, sim, kg, built, hook>>

\* line 123
DeleteOld(p) ==
    /\ pc[p] = "delete"
    /\ LET rn == run[p]
           col == DeleteMany(readme_chunks, rn.repo_name)
       IN /\ readme_chunks' = col
          /\ oplog' = [oplog EXCEPT ![rn.repo_name] =
                         Append(@, [proc |-> p, op |-> "delete", docs |-> <<>>])]
          /\ Proceed(p, [rn EXCEPT !.done = @ \cup {"delete"}], "delete", col)
    /\ hits' = NoHits
    /\ UNCHANGED <<fs, overlap, runs, found, sim, kg, built, hook>>

\* line 124
InsertNew(p) ==
    /\ pc[p] = "insert"
    /\ run[p].all_docs # <<>>
    /\ LET rn == run[p]
           col == InsertMany(readme_chunks, rn.all_docs)
       IN /\ readme_chunks' = col
          /\ oplog' = [oplog EXCEPT ![rn.repo_name] =
                         Append(@, [proc |-> p, op |-> "insert", docs |-> rn.all_docs])]
          /\ Proceed(p, [rn EXCEPT !.done = @ \cup {"insert"}], "insert", col)
    /\ UNCHANGED <<fs, overlap, runs, hits, found, sim, kg, built, hook>>

\* line 124 with an empty all_docs: insert_many refuses an empty list and raises
InsertRaises(p) ==
    /\ pc[p] = "insert"
    /\ run[p].all_docs = <<>>
    /\ Return(p, run[p], "raised", "insert", readme_chunks)
    /\ UNCHANGED <<fs, readme_chunks, overlap, oplog, runs, hits, found, sim, kg, built, hook>>

\* ------------------------------------------------------------------ find_relevant_docs
\* callers that have deleted the old chunks of repo_name and not yet inserted
Between(repo_name) ==
    {p \in Procs : /\ run[p].repo_name = repo_name
                   /\ "delete" \in run[p].done
                   /\ "insert" \notin run[p].done}

\* a read that consumes what it matched
AfterFindConsumed(col, repo_name) ==
    SelectSeq(col, LAMBDA d : d.repo_name # repo_name)

\* the collection after collection.find(query, projection) and list(cursor),
\* lines 93-96: a query, which writes nothing
AfterFind(col, repo_name) ==
    col

\* the collection after collection.aggregate(pipeline), a pipeline of the
\* stages $vectorSearch and $project, neither of which writes
AfterAggregate(col) ==
    col

\* one call: the collection is read once (lines 93-96), the rest is local
Find(repo_name, diff_text, provider_ok, top_k, min_score) ==
    /\ LET raised == /\ FindChunks(readme_chunks, repo_name) # <<>>
                      /\ EmbedTextRaises(diff_text, provider_ok)
       IN hits' = [repo_name |-> repo_name, diff_text |-> diff_text,
                   top_k |-> top_k, min_score |-> min_score,
                   provider_ok |-> provider_ok,
                   query_emb |-> EmbedText(diff_text, provider_ok),
                   between |-> Between(repo_name),
                   had |-> \E p \in Between(repo_name) :
                               FindChunks(run[p].pre, repo_name) # <<>>,
                   raised |-> raised,
                   result |-> IF raised THEN <<>>
                              ELSE FindRelevantDocs(readme_chunks,
                                                    EmbedText(diff_text, provider_ok),
                                                    repo_name, top_k, min_score)]
    /\ readme_chunks' = AfterFind(readme_chunks, repo_name)
    /\ UNCHANGED <<fs, pc, run, last, prev, overlap, oplog, runs, found, sim, kg, built, hook>>

\* ------------------------------------------------------------------ find_relevant_doc
\* the fields the $project stage keeps (lines 45-54)
ProjectedFields ==
    {"file_path", "repo_name", "section_name", "content", "rich_text_for_embedding", "metadata"}

\* one result of the pipeline: the projected fields the document has, and
\* its score (the similarity; Atlas reports (1 + cosine)/2, which orders alike)
ProjectDoc(d, score) ==
    [f \in (DOMAIN d \cap ProjectedFields) \cup {"score"} |->
        IF f = "score" THEN score ELSE d[f]]

\* the documents of stage $vectorSearch, best first: the stored chunks that
\* carry a vector at path "embedding" and pass the filter
RECURSIVE InsertByScore(_, _)
InsertByScore(sorted, item) ==
    IF sorted = <<>> THEN <<item>>
    ELSE IF ScoreGt(item.score, Head(sorted).score)
         THEN <<item>> \o sorted
         ELSE <<Head(sorted)>> \o InsertByScore(Tail(sorted), item)

RECURSIVE RankByScore(_, _)
RankByScore(items, n) ==
    IF n = 0 THEN <<>> ELSE InsertByScore(RankByScore(items, n - 1), items[n])

\* list(collection.aggregate(pipeline)); any_repo: the pipeline has no filter
VectorSearch(col, query_vector, repo_name, limit, any_repo) ==
    LET cands == SelectSeq(col, LAMBDA d : /\ "embedding" \in DOMAIN d
                                          /\ d.embedding # <<>>
                                          /\ (any_repo \/ d.repo_name = repo_name))
        scored == [k \in 1..Len(cands) |->
                     ProjectDoc(cands[k], CosineSim(query_vector, cands[k].embedding))]
        ranked == RankByScore(scored, Len(scored))
    IN SubSeq(ranked, 1, Min(limit, Len(ranked)))

\* What a call gives back: it raises, or returns None, one document or a
\* list; value holds the documents returned.
\* semantic_memory/retriever.py, lines 21-80: the query is embedded with no
\* try around the provider call, and the pipeline's exception is raised again
FindRelevantDoc(col, diff_text, repo_name, limit, provider_ok, index_ok) ==
    IF ~provider_ok \/ ~index_ok THEN [kind |-> "raised", value |-> <<>>]
    ELSE LET results == VectorSearch(col, VoyageQueryEmbed(diff_text), repo_name, limit, FALSE)
         IN IF results = <<>>
            THEN (IF limit = 1 THEN [kind |-> "none", value |-> <<>>]
                  ELSE [kind |-> "list", value |-> <<>>])
            ELSE IF limit = 1 THEN [kind |-> "doc", value |-> <<results[1]>>]
                 ELSE [kind |-> "list", value |-> results]

\* retriever.py, lines 8-38: no filter, limit 1
FindRelevantDocAnyRepo(col, diff_text, provider_ok, index_ok) ==
    IF ~provider_ok \/ ~index_ok THEN [kind |-> "raised", value |-> <<>>]
    ELSE LET results == VectorSearch(col, VoyageQueryEmbed(diff_text), "", 1, TRUE)
         IN IF results = <<>> THEN [kind |-> "none", value |-> <<>>]
            ELSE [kind |-> "doc", value |-> <<results[1]>>]

\* limit of the $vectorSearch stage
Limits == {1, 2}

\* one find_relevant_doc call of semantic_memory/retriever.py
FindDoc(repo_name, diff_text, limit, provider_ok, index_ok) ==
    /\ found' = [repo_name |-> repo_name, diff_text |-> diff_text, limit |-> limit,
                 provider_ok |-> provider_ok, index_ok |-> index_ok, any_repo |-> FALSE,
                 out |-> FindRelevantDoc(readme_chunks, diff_text, repo_name, limit,
                                         provider_ok, index_ok)]
    /\ readme_chunks' = AfterAggregate(readme_chunks)
    /\ UNCHANGED <<fs, pc, run, last, prev, overlap, oplog, runs, hits, sim, kg, built, hook>>

\* one find_relevant_doc call of retriever.py
FindDocAnyRepo(diff_text, provider_ok, index_ok) ==
    /\ found' = [repo_name |-> "*", diff_text |-> diff_text, limit |-> 1,
                 provider_ok |-> provider_ok, index_ok |-> index_ok, any_repo |-> TRUE,
                 out |-> FindRelevantDocAnyRepo(readme_chunks, diff_text,
                                                provider_ok, index_ok)]
    /\ readme_chunks' = AfterAggregate(readme_chunks)
    /\ UNCHANGED <<fs, pc, run, last, prev, overlap, oplog, runs, hits, sim, kg, built, hook>>

\* how the provider and the vector index answer a find_relevant_doc call:
\* the pipeline runs only after the query was embedded
Backends == {<<TRUE, TRUE>>, <<TRUE, FALSE>>, <<FALSE, TRUE>>}

\* ------------------------------------------------------------------ build_graph
\* what the extraction call may do for a section
GraphResponses ==
    {[ok |-> FALSE, json |-> EmptyEntities],
     [ok |-> TRUE, json |-> EmptyEntities],
     [ok |-> TRUE, json |-> [EmptyEntities EXCEPT !.functions = <<"f">>]],
     [ok |-> TRUE, json |-> [EmptyEntities EXCEPT !.functions = <<"f", "g">>,
                                                  !.endpoints = <<"f">>]],
     [ok |-> TRUE, json |-> [functions |-> <<"g", "g">>, classes |-> <<"C">>]]}

\* what the extraction calls of one build_graph call do, section by section
GraphChoices(files) ==
    [1..CountSections(MdFiles(files)) -> GraphResponses]

\* one build_graph(repo_path, repo_name) call, lines 47-190
BuildGraph(repo_path, repo_name, resps) ==
    /\ built.calls < MaxRuns
    /\ LET md_files == MdFiles(fs[repo_path])
           cleared == ClearGraph(kg, repo_name)
           lists == GraphLists(NoLists, repo_name, md_files, resps, 0)
           call == [calls |-> built.calls + 1, repo_path |-> repo_path,
                    repo_name |-> repo_name, resps |-> resps,
                    had |-> ClearGraph(kg, repo_name) # kg]
       IN IF md_files = <<>>
          THEN /\ kg' = cleared
               /\ built' = [outcome |-> "returned", stats |-> Stats(NoLists)] @@ call
          ELSE IF \E k \in DOMAIN resps : ExtractRaises(resps[k])
          THEN /\ kg' = cleared
               /\ built' = [outcome |-> "raised", stats |-> Stats(NoLists)] @@ call
          ELSE /\ kg' = InsertGraph(cleared, lists)
               /\ built' = [outcome |-> "returned", stats |-> Stats(lists)] @@ call
    /\ UNCHANGED <<storeVars, found, sim, hook>>

\* ------------------------------------------------------------------ specification
Next ==
    \/ \E p \in Procs, rp \in RepoPaths, r \in Targets, lib \in BOOLEAN :
         \E resps \in RespChoices(fs[rp], lib) : IndexRepo(p, rp, r, lib, resps)
    \/ \E p \in Procs : EmbedBatch(p)
    \/ \E p \in Procs : EmbedRaises(p)
    \/ \E p \in Procs : DeleteOld(p)
    \/ \E p \in Procs : InsertNew(p)
    \/ \E p \in Procs : InsertRaises(p)
    \/ \E r \in Repos, t \in DiffTexts :
         Find(r, t, TRUE, DefaultTopK, NoMinScore)

Spec == Init /\ [][Next]_vars

\* ------------------------------------------------------------------ one file, one call
\* One index_repo call, without enrichment, on a corpus whose only file holds
\* any text of at most MaxLen characters, or cannot be read.
InitChunk ==
    /\ \E f \in {File("README", ".md", t, TRUE) : t \in TextsUpTo(MaxLen)}
                \cup {File("README", ".md", <<LETTER>>, FALSE)} :
         fs = [rp \in RepoPaths |-> IF rp = "docs" THEN <<f>> ELSE Corpus(rp)]
    /\ readme_chunks = Indexed("docs", "r2")
    /\ pc = [p \in Procs |-> "idle"]
    /\ run = [p \in Procs |-> IdleRun]
    /\ last = [r \in Repos |-> NoCall]
    /\ prev = [r \in Repos |-> NoCall]
    /\ overlap = [r \in Repos |-> FALSE]
    /\ oplog = [r \in Repos |-> <<>>]
    /\ runs = 0
    /\ hits = NoHits
    /\ OthersIdle

NextChunk ==
    \/ /\ runs = 0
       /\ \E resps \in RespChoices(fs["docs"], FALSE) : IndexRepo("w1", "docs", "r1", FALSE, resps)
    \/ EmbedBatch("w1")
    \/ EmbedRaises("w1")
    \/ DeleteOld("w1")
    \/ InsertNew("w1")
    \/ InsertRaises("w1")

SpecChunk == InitChunk /\ [][NextChunk]_vars

\* the text of the only file of the corpus of SpecChunk
ReadmeText == fs["docs"][1].text

\* the lines of a text
Lines(text) == Split(text, <<NL>>)

\* the line begins with the level-2 marker
IsHeaderLine(line) == OccursAt(line, HeaderMarker, 1)

\* k: the number of lines of the text that begin with "## "
CountHeaders(text) == Cardinality({j \in 1..Len(Lines(text)) : IsHeaderLine(Lines(text)[j])})

\* the pieces joined again, sep between any two
RECURSIVE Join(_, _)
Join(pieces, sep) ==
    IF pieces = <<>> THEN <<>>
    ELSE IF Len(pieces) = 1 THEN pieces[1]
    ELSE pieces[1] \o sep \o Join(Tail(pieces), sep)

\* the contents of the chunks, one after the other
RECURSIVE Concat(_)
Concat(docs) == IF docs = <<>> THEN <<>> ELSE Head(docs).content \o Concat(Tail(docs))

\* the text before the first header line (all of it when there is none)
IntroSegment(text) ==
    LET lines == Lines(text)
        hs == {j \in 1..Len(lines) : IsHeaderLine(lines[j])}
    IN IF hs = {} THEN text
       ELSE Join(SubSeq(lines, 1, (CHOOSE j \in hs : \A i \in hs : j <= i) - 1), <<NL>>)

\* the call of w1 has returned normally; its chunks are the stored ones of r1
Chunked == last["r1"].outcome = "returned"
ChunksOfReadme == StoreOf(readme_chunks, "r1")

\* C6: a text with k level-2 header lines yields k+1 sections, numbered 0..k
\* in document order
C6_KPlusOneSections ==
    Chunked =>
        LET docs == ChunksOfReadme
        IN /\ Len(docs) = CountHeaders(ReadmeText) + 1
           /\ \A j \in 1..Len(docs) : docs[j].metadata.section_index = j - 1

\* C7: without enrichment, the contents of the chunks of a file, concatenated
\* in section_index order, are the text of the file
C7_ConcatRoundTrip ==
    Chunked => Concat(ChunksOfReadme) = ReadmeText

\* C8: the chunk named Introduction is the segment before the first header
\* (there even when that segment is empty); every other chunk is named by its
\* own header line and its content begins with "## "
C8_IntroductionAndHeaders ==
    Chunked =>
        LET docs == ChunksOfReadme
        IN /\ Len(docs) >= 1
           /\ docs[1].section_name = Introduction
           /\ docs[1].content = IntroSegment(ReadmeText)
           /\ \A j \in 2..Len(docs) :
                /\ OccursAt(docs[j].content, HeaderMarker, 1)
                /\ HeaderMarker \o docs[j].section_name = Lines(docs[j].content)[1]

\* ------------------------------------------------------------------ index_repo, claims
\* the (file_path, section_index) pairs of the chunks
Keys(docs) == {<<docs[k].file_path, docs[k].metadata.section_index>> : k \in 1..Len(docs)}

\* some (file_path, section_index) occurs twice
HasDuplicateKey(docs) ==
    \E j, k \in 1..Len(docs) :
        /\ j # k
        /\ docs[j].file_path = docs[k].file_path
        /\ docs[j].metadata.section_index = docs[k].metadata.section_index

\* C1: after index_repo has returned, the stored chunks of repo_name are the
\* chunks of the current corpus and nothing older, for every corpus, one
\* without any .md file included
C1_ReturnReplacesChunks ==
    \A r \in Repos :
        (last[r].outcome = "returned" /\ ~overlap[r] /\ NoActive(r))
            => StoreOf(readme_chunks, r) = last[r].docs

\* C2: when the batch embedding call raises, index_repo raises having
\* written nothing: no delete_many and no insert_many came before, and the
\* stored chunks of repo_name are those from before the call
C2_EmbedFailureWritesNothing ==
    \A r \in Repos :
        (last[r].outcome = "raised" /\ last[r].at = "embed")
            => /\ last[r].done \cap {"delete", "insert"} = {}
               /\ ~overlap[r] => last[r].unchanged

C2_Witness ==
    \E r \in Repos :
        /\ last[r].outcome = "raised" /\ last[r].at = "embed"
        /\ ~overlap[r] /\ NoActive(r)
        /\ last[r].had
        /\ last[r].docs # <<>>
        /\ last[r].unchanged
        /\ StoreOf(readme_chunks, r) # <<>>

\* C3: two index_repo calls in sequence on the same corpus and repo_name
\* leave the same chunks, compared by (file_path, section_name,
\* section_index, content), and no (file_path, section_index) twice
C3_IdempotentReindex ==
    \A r \in Repos :
        ( /\ ~overlap[r] /\ NoActive(r)
          /\ last[r].outcome = "returned" /\ prev[r].outcome = "returned"
          /\ last[r].repo_path = prev[r].repo_path
          /\ last[r].use_librarian = prev[r].use_librarian )
            => /\ last[r].same_core
               /\ ~HasDuplicateKey(StoreOf(readme_chunks, r))

\* the last four writes to the chunks of r are delete, delete, insert, insert,
\* the inserts by two callers: two calls that overlapped
DeleteDeleteInsertInsert(r) ==
    LET log == oplog[r]
        n == Len(log)
    IN /\ n >= 4
       /\ log[n - 3].op = "delete" /\ log[n - 2].op = "delete"
       /\ log[n - 1].op = "insert" /\ log[n].op = "insert"
       /\ log[n - 1].proc # log[n].proc

\* C4: once two overlapping index_repo calls for one repo_name have both
\* deleted and then both inserted, the collection holds the chunks of both;
\* chunks they have in common by (file_path, section_index) are there twice
C4_OverlapKeepsBoth ==
    \A r \in Repos :
        (NoActive(r) /\ DeleteDeleteInsertInsert(r))
            => LET log == oplog[r]
                   n == Len(log)
               IN /\ StoreOf(readme_chunks, r) = log[n - 1].docs \o log[n].docs
                  /\ (Keys(log[n - 1].docs) \cap Keys(log[n].docs) # {})
                        => HasDuplicateKey(StoreOf(readme_chunks, r))

C4_Witness ==
    \E r \in Repos :
        /\ NoActive(r) /\ DeleteDeleteInsertInsert(r)
        /\ last[r].outcome = "returned" /\ prev[r].outcome = "returned"
        /\ HasDuplicateKey(StoreOf(readme_chunks, r))

\* C5: a find_relevant_docs call that reads the collection after the
\* delete_many of the only index_repo call in progress for its repo_name and
\* before that call's insert_many returns the empty list
C5_FindInWindowIsEmpty ==
    (hits.repo_name # "" /\ hits.between # {} /\ ~overlap[hits.repo_name])
        => hits.result = <<>>

\* the repo had chunks with embeddings before the call started, the find in
\* the window returned nothing, and the chunks are there again after the call
C5_Witness ==
    /\ hits.repo_name # ""
    /\ hits.between # {} /\ ~overlap[hits.repo_name]
    /\ hits.had
    /\ hits.result = <<>>
    /\ NoActive(hits.repo_name)
    /\ last[hits.repo_name].outcome = "returned"
    /\ FindChunks(readme_chunks, hits.repo_name) # <<>>

\* the chunks of one file, in storage order
OfFile(docs, fp) == SelectSeq(docs, LAMBDA d : d.file_path = fp)

\* the section_index values of every file are 0..n-1 in storage order
Contiguous(docs) ==
    \A fp \in {docs[k].file_path : k \in 1..Len(docs)} :
        \A j \in 1..Len(OfFile(docs, fp)) : OfFile(docs, fp)[j].metadata.section_index = j - 1

\* C9: as long as no two index_repo calls for a repo_name have overlapped, the
\* section_index values of each of its files are 0..n-1, without gap or
\* repeat, in document order
C9_SectionIndexContiguous ==
    \A r \in Repos : ~overlap[r] => Contiguous(StoreOf(readme_chunks, r))

C9_Witness ==
    \E r \in Targets :
        /\ ~overlap[r] /\ NoActive(r)
        /\ last[r].outcome = "returned" /\ prev[r].outcome = "returned"
        /\ Len(StoreOf(readme_chunks, r)) >= 2
        /\ Contiguous(StoreOf(readme_chunks, r))

\* ------------------------------------------------------------------ retrieval alone
\* find_relevant_docs over any collection of at most MaxChunks documents.
\* The documents differ in what the function reads: repo_name, file_path
\* (which a document written by db_init.py lacks) and embedding (absent,
\* empty, zero or not).
FileA == <<"a", ".md">>
FileB == <<"b", ".md">>
EmbeddingsOfA == {<<1, -1>>, <<1, 0>>, <<1, 1>>, <<0, 0>>, <<>>}
EmbeddingsOfB == {<<1, 0>>, <<1, 1>>, <<0, 0>>, <<-1>>}

FindDocs ==
    {[repo_name |-> "r1", file_path |-> FileA, embedding |-> e] : e \in EmbeddingsOfA}
    \cup {[repo_name |-> "r1", file_path |-> FileB, embedding |-> e] : e \in EmbeddingsOfB}
    \cup {[repo_name |-> "r1", embedding |-> <<1, 1>>],
          [repo_name |-> "r1", file_path |-> FileA],
          [repo_name |-> "r2", file_path |-> FileB, embedding |-> <<1, 1>>]}

RECURSIVE SeqsUpTo(_, _)
SeqsUpTo(S, n) ==
    IF n = 0 THEN {<<>>}
    ELSE LET shorter == SeqsUpTo(S, n - 1)
         IN shorter \cup {Append(q, x) : q \in {t \in shorter : Len(t) = n - 1}, x \in S}

TopKs == {-1, 0, 1, DefaultTopK}
MinScores == {NoMinScore, <<Fraction(1, 2)>>}

InitFind ==
    /\ readme_chunks \in SeqsUpTo(FindDocs, MaxChunks)
    /\ fs = [rp \in RepoPaths |-> Corpus(rp)]
    /\ pc = [p \in Procs |-> "idle"]
    /\ run = [p \in Procs |-> IdleRun]
    /\ last = [r \in Repos |-> NoCall]
    /\ prev = [r \in Repos |-> NoCall]
    /\ overlap = [r \in Repos |-> FALSE]
    /\ oplog = [r \in Repos |-> <<>>]
    /\ runs = 0
    /\ hits = NoHits
    /\ OthersIdle

\* one call in a behaviour
NextFind ==
    /\ hits = NoHits
    /\ found = NoFound
    /\ \/ \E r \in Repos, t \in DiffTexts, ok \in BOOLEAN, k \in TopKs, m \in MinScores :
            Find(r, t, ok, k, m)
       \/ \E r \in Repos, t \in DiffTexts, n \in Limits, b \in Backends :
            FindDoc(r, t, n, b[1], b[2])
       \/ \E t \in DiffTexts, b \in Backends : FindDocAnyRepo(t, b[1], b[2])

SpecFind == InitFind /\ [][NextFind]_vars

\* ------------------------------------------------------------------ find_relevant_docs, claims
\* the stored chunks a call for repo_name scores: of that repository, with a
\* non-empty embedding and a file_path
Scored(col, repo_name) ==
    {k \in 1..Len(col) :
        /\ col[k].repo_name = repo_name
        /\ "embedding" \in DOMAIN col[k] /\ col[k].embedding # <<>>
        /\ "file_path" \in DOMAIN col[k]}

\* s is the greatest similarity to q among the scored chunks of file fp
IsMaxOfFile(col, repo_name, q, fp, s) ==
    /\ \E k \in Scored(col, repo_name) :
         col[k].file_path = fp /\ CosineSim(q, col[k].embedding) = s
    /\ \A k \in Scored(col, repo_name) :
         col[k].file_path = fp => ScoreGe(s, CosineSim(q, col[k].embedding))

\* C10: each file_path is returned at most once, with the greatest cosine
\* score over the stored chunks of that file that have a non-empty embedding;
\* a file with a greater such score comes before one with a smaller; with no
\* threshold and top_k not below the number of files, every such file is returned
C10_MaxScorePerFile ==
    hits.repo_name # "" =>
        LET res == hits.result
            files == {readme_chunks[k].file_path : k \in Scored(readme_chunks, hits.repo_name)}
        IN /\ \A i, j \in 1..Len(res) : res[i][1] = res[j][1] => i = j
           /\ \A i \in 1..Len(res) :
                IsMaxOfFile(readme_chunks, hits.repo_name, hits.query_emb, res[i][1], res[i][2])
           /\ \A i, j \in 1..Len(res) : ScoreGt(res[i][2], res[j][2]) => i < j
           /\ (hits.min_score = NoMinScore /\ hits.top_k >= Cardinality(files))
                => {res[i][1] : i \in 1..Len(res)} = files

\* chunks (FileA, low), (FileA, high), (FileB, between) are stored and the
\* call returns FileA with the high score ahead of FileB
C10_Witness ==
    /\ hits.repo_name # ""
    /\ \E i, j, k \in Scored(readme_chunks, hits.repo_name) :
         LET si == CosineSim(hits.query_emb, readme_chunks[i].embedding)
             sj == CosineSim(hits.query_emb, readme_chunks[j].embedding)
             sk == CosineSim(hits.query_emb, readme_chunks[k].embedding)
         IN /\ readme_chunks[i].file_path = FileA
            /\ readme_chunks[j].file_path = FileA
            /\ readme_chunks[k].file_path = FileB
            /\ ScoreGt(sj, sk) /\ ScoreGt(sk, si)
            /\ i < j
            /\ hits.result = << <<FileA, sj>>, <<FileB, sk>> >>

\* the positions of the stored chunks the query of line 91 returns
Returned(col, repo_name) ==
    {k \in 1..Len(col) : col[k].repo_name = repo_name /\ "embedding" \in DOMAIN col[k]}

\* the least element of a non-empty set of numbers
Least(S) == CHOOSE x \in S : \A y \in S : x <= y

\* the position of the first chunk of file fp the cursor yields
FirstEncountered(col, repo_name, fp) ==
    Least({k \in Returned(col, repo_name) :
             "file_path" \in DOMAIN col[k] /\ col[k].file_path = fp})

\* the position of the first chunk of file fp the loop scores
FirstScored(col, repo_name, fp) ==
    Least({k \in Scored(col, repo_name) : col[k].file_path = fp})

\* a find_relevant_docs call has returned
Found == hits.repo_name # "" /\ ~hits.raised

\* C11 as stated: the returned list is in non-increasing order of score, and
\* two files with equal score appear in the order in which the first chunk
\* of each was encountered in the storage iteration
C11_TiesByFirstChunkEncountered ==
    Found =>
        LET res == hits.result
        IN \A i, j \in 1..Len(res) :
             i < j =>
               /\ ScoreGe(res[i][2], res[j][2])
               /\ res[i][2] = res[j][2] =>
                    FirstEncountered(readme_chunks, hits.repo_name, res[i][1])
                      < FirstEncountered(readme_chunks, hits.repo_name, res[j][1])

\* C11, amended: the returned list is in non-increasing order of score, and
\* two files with equal score appear in the order in which the first chunk
\* of each that has a non-empty embedding was encountered
C11_TiesByFirstChunkScored ==
    Found =>
        LET res == hits.result
        IN \A i, j \in 1..Len(res) :
             i < j =>
               /\ ScoreGe(res[i][2], res[j][2])
               /\ res[i][2] = res[j][2] =>
                    FirstScored(readme_chunks, hits.repo_name, res[i][1])
                      < FirstScored(readme_chunks, hits.repo_name, res[j][1])

\* FileA's first chunk scores low, FileB's chunk then ties with a later chunk
\* of FileA: FileA, discovered first, is returned first
C11_Witness ==
    /\ Found
    /\ \E i, j, k \in Scored(readme_chunks, hits.repo_name) :
         LET si == CosineSim(hits.query_emb, readme_chunks[i].embedding)
             sj == CosineSim(hits.query_emb, readme_chunks[j].embedding)
             sk == CosineSim(hits.query_emb, readme_chunks[k].embedding)
         IN /\ i < j /\ j < k
            /\ readme_chunks[i].file_path = FileA
            /\ readme_chunks[j].file_path = FileB
            /\ readme_chunks[k].file_path = FileA
            /\ ScoreGt(sj, si) /\ sj = sk
            /\ hits.result = << <<FileA, sk>>, <<FileB, sj>> >>

\* the files of the chunks a call scores
ScoredFiles(col, repo_name) == {col[k].file_path : k \in Scored(col, repo_name)}

\* the aggregate score of file fp: the greatest similarity among its scored chunks
AggregateScore(col, repo_name, q, fp) ==
    LET scores == {CosineSim(q, col[k].embedding) :
                     k \in {j \in Scored(col, repo_name) : col[j].file_path = fp}}
    IN CHOOSE s \in scores : \A t \in scores : ScoreGe(s, t)

\* file f is ranked before file g
RankedBefore(col, repo_name, q, f, g) ==
    LET sf == AggregateScore(col, repo_name, q, f)
        sg == AggregateScore(col, repo_name, q, g)
    IN \/ ScoreGt(sf, sg)
       \/ sf = sg /\ FirstScored(col, repo_name, f) < FirstScored(col, repo_name, g)

\* the files whose aggregate score reaches min_score: all of them without one
Qualifying(col, repo_name, q, min_score) ==
    {fp \in ScoredFiles(col, repo_name) :
        min_score = NoMinScore \/ ScoreGe(AggregateScore(col, repo_name, q, fp), min_score[1])}

\* C12: for top_k >= 0 the result is the first min(top_k, m) entries of the
\* ranked list of the m files whose aggregate score is >= min_score (all files
\* without a min_score): the i-th entry is the qualifying file with exactly
\* i - 1 qualifying files ranked before it, with its aggregate score; no
\* score is below min_score; with m = 0 the result is empty
C12_FirstTopKOfQualifying ==
    (Found /\ hits.top_k >= 0) =>
        LET res == hits.result
            r == hits.repo_name
            q == hits.query_emb
            qualifying == Qualifying(readme_chunks, r, q, hits.min_score)
            m == Cardinality(qualifying)
        IN /\ Len(res) = Min(hits.top_k, m)
           /\ \A i \in 1..Len(res) :
                /\ res[i][1] \in qualifying
                /\ res[i][2] = AggregateScore(readme_chunks, r, q, res[i][1])
                /\ hits.min_score # NoMinScore => ScoreGe(res[i][2], hits.min_score[1])
                /\ Cardinality({g \in qualifying :
                                  RankedBefore(readme_chunks, r, q, g, res[i][1])}) = i - 1
           /\ m = 0 => res = <<>>

\* top_k = 1 with a min_score: two files qualify, the second with a score
\* equal to min_score, and only the first is returned
C12_Witness ==
    /\ Found
    /\ hits.top_k = 1 /\ hits.min_score # NoMinScore
    /\ LET qualifying == Qualifying(readme_chunks, hits.repo_name, hits.query_emb,
                                    hits.min_score)
       IN /\ Cardinality(qualifying) = 2
          /\ \E f \in qualifying :
               AggregateScore(readme_chunks, hits.repo_name, hits.query_emb, f)
                 = hits.min_score[1]
          /\ Len(hits.result) = 1
          /\ ScoreGt(hits.result[1][2], hits.min_score[1])

\* _cosine_sim(a, b) takes the branch of line 71: a norm over the compared
\* components is zero
ZeroNorm(a, b) ==
    LET n == Min(Len(a), Len(b)) IN Dot(a, a, n) = 0 \/ Dot(b, b, n) = 0

\* the aggregate score of file fp is the sentinel: all its scored chunks
\* have zero norm over the compared components
IsSentinelFile(col, repo_name, q, fp) ==
    \A k \in Scored(col, repo_name) :
        col[k].file_path = fp => ZeroNorm(q, col[k].embedding)

\* C13: in the result a file whose aggregate score is the sentinel comes
\* after every file whose aggregate score is a computed similarity
C13_SentinelRankedLast ==
    Found =>
        LET res == hits.result
        IN \A i, j \in 1..Len(res) :
             (/\ IsSentinelFile(readme_chunks, hits.repo_name, hits.query_emb, res[i][1])
              /\ ~IsSentinelFile(readme_chunks, hits.repo_name, hits.query_emb, res[j][1]))
               => j < i

\* ------------------------------------------------------------------ _cosine_sim alone
\* One _cosine_sim call on any two vectors of at most MaxDim components.
MaxDim == 3
Components == {-1, 0, 1}
Vectors == SeqsUpTo(Components, MaxDim)

\* no index_repo call has started and no find_relevant_docs call was made
StoreIdle ==
    /\ fs = [rp \in RepoPaths |-> Corpus(rp)]
    /\ readme_chunks = Indexed("docs", "r2")
    /\ pc = [p \in Procs |-> "idle"]
    /\ run = [p \in Procs |-> IdleRun]
    /\ last = [r \in Repos |-> NoCall]
    /\ prev = [r \in Repos |-> NoCall]
    /\ overlap = [r \in Repos |-> FALSE]
    /\ oplog = [r \in Repos |-> <<>>]
    /\ runs = 0
    /\ hits = NoHits

InitCosine ==
    /\ StoreIdle
    /\ \E a \in Vectors, b \in Vectors : sim = [called |-> FALSE, a |-> a, b |-> b]
    /\ found = NoFound /\ kg = NoGraph /\ built = NoBuild /\ hook = NoHook

\* the call _cosine_sim(sim.a, sim.b)
CosineSimCall ==
    /\ ~sim.called
    /\ sim' = [called |-> TRUE, a |-> sim.a, b |-> sim.b, result |-> CosineSim(sim.a, sim.b)]
    /\ UNCHANGED <<storeVars, found, kg, built, hook>>

NextCosine == CosineSimCall

SpecCosine == InitCosine /\ [][NextCosine]_vars

\* the sum of f over the finite set S
RECURSIVE SumOver(_, _)
SumOver(f, S) ==
    IF S = {} THEN 0
    ELSE LET x == CHOOSE y \in S : TRUE IN f[x] + SumOver(f, S \ {x})

\* C14: _cosine_sim(a, b) is the sentinel when a or b is empty or has zero
\* norm over the first n = min(len(a), len(b)) components; otherwise it is
\* dot/(|a|*|b|) over those n components only: its signed square times
\* |a|^2*|b|^2 is sign(dot)*dot^2, and it lies in [-1, 1]
C14_CosineOverShorterLength ==
    sim.called =>
        LET a == sim.a
            b == sim.b
            n == Min(Len(a), Len(b))
            dot == SumOver([i \in 1..n |-> a[i] * b[i]], 1..n)
            na2 == SumOver([i \in 1..n |-> a[i] * a[i]], 1..n)
            nb2 == SumOver([i \in 1..n |-> b[i] * b[i]], 1..n)
        IN IF a = <<>> \/ b = <<>> \/ na2 = 0 \/ nb2 = 0
           THEN sim.result = Sentinel
           ELSE /\ sim.result.d > 0
                /\ sim.result.n * (na2 * nb2)
                     = (IF dot < 0 THEN -1 ELSE 1) * dot * dot * sim.result.d
                /\ ScoreGe(sim.result, Fraction(-1, 1))
                /\ ScoreGe(Fraction(1, 1), sim.result)

\* vectors of different lengths, the longer with a non-zero component past
\* the shorter's end: the similarity is that of the common prefix, here 1
C14_Witness ==
    /\ sim.called
    /\ Len(sim.a) > Len(sim.b) /\ sim.b # <<>>
    /\ sim.a[Len(sim.a)] # 0
    /\ SubSeq(sim.a, 1, Len(sim.b)) = sim.b
    /\ sim.result = Fraction(1, 1)

\* ------------------------------------------------------------------ query embedding, claims
\* the local hashed vector of a text, up to its positive scale: bucket j
\* holds the sum of ord(ch) % 97 over the characters at the positions i
\* below 4096 with i % 128 = j - 1
LocalVector(text) ==
    [j \in 1..LocalDim |->
        LET at == {i \in 0..(Min(Len(text), MaxHashed) - 1) : i % LocalDim = j - 1}
        IN SumOver([i \in at |-> Ord(text[i + 1]) % HashMod], at)]

\* C15: when the provider call fails while find_relevant_docs embeds the
\* query, the call does not raise; it scores against the local hashed vector
\* and returns the files, each with its best similarity to that vector,
\* ranked by it
C15_ProviderFailureFallsBack ==
    (/\ hits.repo_name # ""
     /\ ~hits.provider_ok
     /\ FindChunks(readme_chunks, hits.repo_name) # <<>>) =>
        LET res == hits.result
            q == hits.query_emb
        IN /\ ~hits.raised
           /\ q = LocalVector(hits.diff_text)
           /\ \A i \in 1..Len(res) :
                IsMaxOfFile(readme_chunks, hits.repo_name, q, res[i][1], res[i][2])
           /\ \A i, j \in 1..Len(res) : i < j => ScoreGe(res[i][2], res[j][2])
           /\ (hits.min_score = NoMinScore
                /\ hits.top_k >= Cardinality(ScoredFiles(readme_chunks, hits.repo_name)))
                => {res[i][1] : i \in 1..Len(res)} = ScoredFiles(readme_chunks, hits.repo_name)

\* the provider call failed and the call returned two files in the order of
\* their different similarities to the local vector
C15_Witness ==
    /\ hits.repo_name # ""
    /\ ~hits.provider_ok /\ ~hits.raised
    /\ Len(hits.result) = 2
    /\ ScoreGt(hits.result[1][2], hits.result[2][2])
    /\ ScoreGt(hits.result[2][2], Sentinel)
    /\ hits.result[1][2] # CosineSim(VoyageQueryEmbed(hits.diff_text),
                                     readme_chunks[FirstScored(readme_chunks, hits.repo_name,
                                                               hits.result[1][1])].embedding)

\* ------------------------------------------------------------------ find_relevant_doc, claims
\* a find_relevant_doc call was made
DocCalled == found.repo_name # ""

\* C16: when the provider call fails while find_relevant_doc embeds the
\* query, the call does not raise: it returns a result or an empty result
C16_DocProviderFailureFallsBack ==
    (DocCalled /\ ~found.provider_ok) => found.out.kind # "raised"

\* C17: when no stored chunk qualifies, find_relevant_docs and
\* find_relevant_doc (for every limit, 1 included) return an empty sequence
\* and do not raise
C17_NothingQualifiesEmptySequence ==
    /\ (/\ hits.repo_name # ""
        /\ Qualifying(readme_chunks, hits.repo_name, hits.query_emb, hits.min_score) = {})
         => (~hits.raised /\ hits.result = <<>>)
    /\ (/\ DocCalled
        /\ found.provider_ok /\ found.index_ok
        /\ \A k \in 1..Len(readme_chunks) :
             (found.any_repo \/ readme_chunks[k].repo_name = found.repo_name)
               => ("embedding" \notin DOMAIN readme_chunks[k] \/ readme_chunks[k].embedding = <<>>))
         => (found.out.kind = "list" /\ found.out.value = <<>>)

\* ------------------------------------------------------------------ index_repo, error handling
\* C18: with use_librarian=True index_repo never raises because of the
\* metadata-extraction step, whatever the extraction call does for a section
C18_ExtractionNeverAborts ==
    \A r \in Repos :
        (last[r].outcome # "none" /\ last[r].use_librarian)
            => ~(last[r].outcome = "raised" /\ last[r].at = "metadata")

\* the .md files of a corpus that cannot be read
Unreadable(files) == SelectSeq(MdFiles(files), LAMBDA f : ~f.readable)

\* the chunks index_repo builds, without enrichment, from the readable .md
\* files of a corpus
ReadableChunks(repo_name, files) ==
    LET md_files == SelectSeq(MdFiles(files), LAMBDA f : f.readable)
    IN Core(BuildDocs(repo_name, md_files, FALSE,
                      [k \in 1..CountSections(md_files) |-> "error"], 0))

\* C19: when reading an .md file raises during index_repo, the run (unless
\* the embedding provider fails) completes without raising, the file
\* contributes no chunk and the sections of the readable files are stored
C19_UnreadableFileSkipped ==
    \A r \in Repos :
        LET c == last[r]
        IN (/\ c.outcome # "none"
            /\ ~c.use_librarian
            /\ Unreadable(fs[c.repo_path]) # <<>>
            /\ ~(c.outcome = "raised" /\ c.at = "embed"))
            => /\ c.outcome = "returned"
               /\ NoActive(r) =>
                    Core(StoreOf(readme_chunks, r)) = ReadableChunks(r, fs[c.repo_path])

\* ------------------------------------------------------------------ build_graph alone
\* build_graph calls for r1, one after the other, over a database that holds
\* the graph of r2; the extraction call answers each section in any way.
InitGraph ==
    /\ fs = [rp \in GraphPaths |-> Corpus(rp)]
    /\ readme_chunks = Indexed("docs", "r2")
    /\ pc = [p \in Procs |-> "idle"]
    /\ run = [p \in Procs |-> IdleRun]
    /\ last = [r \in Repos |-> NoCall]
    /\ prev = [r \in Repos |-> NoCall]
    /\ overlap = [r \in Repos |-> FALSE]
    /\ oplog = [r \in Repos |-> <<>>]
    /\ runs = 0
    /\ hits = NoHits
    /\ found = NoFound /\ sim = NoSim /\ built = NoBuild /\ hook = NoHook
    /\ kg = InsertGraph(NoGraph,
                        GraphLists(NoLists, "r2", MdFiles(Corpus("docs")),
                                   [k \in 1..CountSections(MdFiles(Corpus("docs"))) |->
                                      [ok |-> TRUE,
                                       json |-> [EmptyEntities EXCEPT !.functions = <<"f">>]]],
                                   0))

NextGraph ==
    \E rp \in GraphPaths, r \in Targets :
        \E resps \in GraphChoices(fs[rp]) : BuildGraph(rp, r, resps)

SpecGraph == InitGraph /\ [][NextGraph]_vars

\* the sections build_graph visits, in order: those of the readable .md files
RECURSIVE FlatSections(_)
FlatSections(files) ==
    IF files = <<>> THEN <<>>
    ELSE LET f == Head(files)
             numbered == NumberedSections(f.text)
         IN (IF f.readable
             THEN [k \in 1..Len(numbered) |-> [file_path |-> PathOf(f), e |-> numbered[k]]]
             ELSE <<>>) \o FlatSections(Tail(files))

\* the names the extraction call gave for a section in one of its lists:
\* none when it raised or returned unparseable JSON, or left the list out
NamesGiven(resp, field) ==
    IF resp.ok /\ field \in DOMAIN resp.json THEN resp.json[field] ELSE <<>>

\* the entity types build_graph makes code entities of, with the list of each
Extracted == {<<"function", "functions">>, <<"endpoint", "endpoints">>}

EntityTypes ==
    {<<"function", "functions">>, <<"endpoint", "endpoints">>, <<"class", "classes">>,
     <<"variable", "variables">>, <<"dependency", "dependencies">>}

\* the elements of a sequence
Range(s) == {s[i] : i \in 1..Len(s)}

\* the records of repo_name in a graph collection
GraphOf(col, repo_name) == SelectSeq(col, LAMBDA d : d.repo_name = repo_name)

\* the sections the last build_graph call visited
BuiltSections == FlatSections(MdFiles(fs[built.repo_path]))

\* the section id build_graph gives the k-th section it visited
BuiltSectionId(k) ==
    SectionId(built.repo_name, BuiltSections[k].file_path,
              Header(BuiltSections[k].e.i, BuiltSections[k].e.section))

\* the (entity_type, name) pairs the extraction step returned in the lists
\* of types, over all sections of the last call
PairsGiven(types) ==
    UNION {{<<t[1], n>> : n \in Range(NamesGiven(built.resps[k], t[2]))} :
             k \in 1..Len(BuiltSections), t \in types}

\* C21: after build_graph returns, no two stored code entities of repo_name
\* share (entity_type, name), and the returned code_entities count is the
\* number of distinct (entity_type, name) pairs extracted over all sections
C21_CodeEntitiesDeduplicated ==
    built.outcome = "returned" =>
        LET code == GraphOf(kg.code_entities, built.repo_name)
        IN /\ \A i, j \in 1..Len(code) :
                (code[i].entity_type = code[j].entity_type /\ code[i].name = code[j].name)
                  => i = j
           /\ built.stats.code_entities = Cardinality(PairsGiven(EntityTypes))

\* C22: every section that references a code entity build_graph created has
\* its section id in the entity's related_sections and its header in the
\* entity's metadata.extracted_from
C22_ReferencingSectionsTracked ==
    built.outcome = "returned" =>
        LET code == GraphOf(kg.code_entities, built.repo_name)
        IN \A i \in 1..Len(code), k \in 1..Len(BuiltSections), t \in EntityTypes :
             (t[1] = code[i].entity_type
              /\ code[i].name \in Range(NamesGiven(built.resps[k], t[2])))
               => /\ InSeq(BuiltSectionId(k), code[i].related_sections)
                  /\ InSeq(Header(BuiltSections[k].e.i, BuiltSections[k].e.section),
                           code[i].metadata.extracted_from)

\* C23: for every name the extraction step returned in any of its five
\* lists for a section there is a code entity of that type and name and a
\* 'describes' relationship from the section to it
C23_EveryListedNameGetsEntity ==
    built.outcome = "returned" =>
        \A k \in 1..Len(BuiltSections), t \in EntityTypes :
            \A n \in Range(NamesGiven(built.resps[k], t[2])) :
                /\ \E d \in Range(GraphOf(kg.code_entities, built.repo_name)) :
                     d.entity_type = t[1] /\ d.name = n
                /\ \E rel \in Range(kg.knowledge_relationships) :
                     /\ rel.type = "describes"
                     /\ rel.from_entity_id = BuiltSectionId(k)
                     /\ rel.to_entity_id = EntityId(built.repo_name, t[1], n)

\* C24: after build_graph returns, the four collections hold for repo_name
\* only what this call produced: as many records as it counted, section
\* entities and index entries of the sections it visited, code entities and
\* relationships of the names it was given; with no .md file all four are
\* empty for repo_name and the counts are zero
C24_GraphRebuiltWholesale ==
    built.outcome = "returned" =>
        LET r == built.repo_name
            ents == GraphOf(kg.knowledge_entities, r)
            rels == GraphOf(kg.knowledge_relationships, r)
            code == GraphOf(kg.code_entities, r)
            idx == GraphOf(kg.section_index, r)
            ids == {BuiltSectionId(k) : k \in 1..Len(BuiltSections)}
        IN /\ Len(ents) = built.stats.entities
           /\ Len(rels) = built.stats.relationships
           /\ Len(code) = built.stats.code_entities
           /\ Len(idx) = built.stats.sections
           /\ Len(ents) = Len(BuiltSections) /\ Len(idx) = Len(BuiltSections)
           /\ \A k \in 1..Len(ents) :
                /\ ents[k].entity_id = BuiltSectionId(k)
                /\ ents[k].content = FullText(BuiltSections[k].e.i, BuiltSections[k].e.section)
                /\ idx[k].section_id = BuiltSectionId(k)
           /\ \A d \in Range(code) : <<d.entity_type, d.name>> \in PairsGiven(Extracted)
           /\ \A rel \in Range(rels) : rel.from_entity_id \in ids
           /\ MdFiles(fs[built.repo_path]) = <<>> =>
                /\ ents = <<>> /\ rels = <<>> /\ code = <<>> /\ idx = <<>>
                /\ built.stats = [entities |-> 0, code_entities |-> 0,
                                   relationships |-> 0, sections |-> 0]

\* a second call, on a corpus with no .md file, for a repo_name whose graph
\* an earlier call had filled: all four collections are empty for it
C24_Witness ==
    /\ built.outcome = "returned"
    /\ built.calls = 2 /\ built.had
    /\ MdFiles(fs[built.repo_path]) = <<>>
    /\ \A c \in DOMAIN kg : GraphOf(kg[c], built.repo_name) = <<>>
    /\ GraphOf(kg.knowledge_entities, "r2") # <<>>

\* C29: after build_graph the entity_id values of the section entities of a
\* repo are pairwise distinct, and get_code_entities_by_section for a
\* section returns only code entities that section references
C29_SectionIdsDistinct ==
    built.outcome = "returned" =>
        LET r == built.repo_name
            ents == GraphOf(kg.knowledge_entities, r)
        IN /\ \A i, j \in 1..Len(ents) : ents[i].entity_id = ents[j].entity_id => i = j
           /\ \A k \in 1..Len(BuiltSections) :
                \A d \in Range(GetCodeEntitiesBySection(kg, r, BuiltSectionId(k))) :
                    \E t \in EntityTypes :
                        /\ t[1] = d.entity_type
                        /\ d.name \in Range(NamesGiven(built.resps[k], t[2]))

\* C28: for every integer top_k, zero and negative ones included,
\* find_relevant_docs returns at most max(top_k, 0) entries
C28_AtMostTopK ==
    Found => Len(hits.result) <= Max(hits.top_k, 0)

\* ------------------------------------------------------------------ retrievals only
\* Any number of retrievals, of the three functions and in any order, over a
\* collection nothing writes to.
ReadDocs ==
    {[repo_name |-> "r1", file_path |-> FileA, embedding |-> <<1, 0>>],
     [repo_name |-> "r1", file_path |-> FileB, embedding |-> <<1, 1>>],
     [repo_name |-> "r2", file_path |-> FileB, embedding |-> <<1, 1>>]}

InitReads ==
    /\ readme_chunks \in SeqsUpTo(ReadDocs, MaxChunks)
    /\ fs = [rp \in RepoPaths |-> Corpus(rp)]
    /\ pc = [p \in Procs |-> "idle"]
    /\ run = [p \in Procs |-> IdleRun]
    /\ last = [r \in Repos |-> NoCall]
    /\ prev = [r \in Repos |-> NoCall]
    /\ overlap = [r \in Repos |-> FALSE]
    /\ oplog = [r \in Repos |-> <<>>]
    /\ runs = 0
    /\ hits = NoHits
    /\ OthersIdle

NextReads ==
    \/ \E r \in Repos, t \in DiffTexts, ok \in BOOLEAN, k \in {1, DefaultTopK}, m \in MinScores :
         Find(r, t, ok, k, m)
    \/ \E r \in Repos, t \in DiffTexts, n \in Limits, b \in Backends :
         FindDoc(r, t, n, b[1], b[2])
    \/ \E t \in DiffTexts, b \in Backends : FindDocAnyRepo(t, b[1], b[2])

SpecReads == InitReads /\ [][NextReads]_vars

\* what the find_relevant_docs call recorded in h gives when it runs alone on col
DocsAlone(col, h) ==
    FindRelevantDocs(col, EmbedText(h.diff_text, h.provider_ok), h.repo_name,
                     h.top_k, h.min_score)

\* what the find_relevant_doc call recorded in f gives when it runs alone on col
DocAlone(col, f) ==
    IF f.any_repo THEN FindRelevantDocAnyRepo(col, f.diff_text, f.provider_ok, f.index_ok)
    ELSE FindRelevantDoc(col, f.diff_text, f.repo_name, f.limit, f.provider_ok, f.index_ok)

Secrets == {"", "s"}

\* The deliveries: the X-GitHub-Event header, whether the payload has the
\* key pull_request, its action, and pull_request.merged ("absent" when the
\* pull request object lacks the key).
Events ==
    {[event |-> "push", has_pr |-> FALSE, action |-> "none", merged |-> "absent"],
     [event |-> "pull_request_review", has_pr |-> TRUE, action |-> "submitted",
      merged |-> "absent"]}
    \cup {[event |-> "pull_request", has_pr |-> TRUE, action |-> a, merged |-> m] :
            a \in {"closed", "opened"}, m \in {"true", "false", "absent"}}

\* hmac.new(key, payload, hashlib.sha256).hexdigest(): equal for equal key
\* and payload, different otherwise
HmacSha256(key, payload) == <<key, payload>>

\* "sha256=" + mac.hexdigest()
Signed(key, payload) == [prefix |-> "sha256=", digest |-> HmacSha256(key, payload)]

\* The X-Hub-Signature-256 header of a request with this body: absent (the
\* empty sequence), or one value: the signature under the secret, under
\* another key, of another body, or the digest without its prefix.
SignatureHeaders(secret, body) ==
    {<<>>,
     <<Signed(secret, body)>>,
     <<Signed("k", body)>>,
     <<Signed(secret, CHOOSE e \in Events : e # body)>>,
     <<[prefix |-> "", digest |-> HmacSha256(secret, body)]>>}

\* request.headers.get("X-Hub-Signature-256", ""): the value, "" when absent
EmptySignature == [prefix |-> "", digest |-> <<>>]

\* verify_webhook_signature(payload, signature), the same in the two files
VerifyWebhookSignature(secret, payload, signature) ==
    IF secret = "" THEN TRUE
    ELSE Signed(secret, payload) = signature

\* the test that lets an event through with either half true
ClosedOrMerged(e) ==
    e.action = "closed" \/ e.merged = "true"

\* action == "closed" and merged, with merged = pr.get("merged", False)
ClosedAndMerged(e) ==
    e.action = "closed" /\ e.merged = "true"

\* What the calls after the filter do: the fetch of the pull request's files
\* succeeds or raises; process_merged_pr makes its three writes in order and
\* returns, or raises after the first done of them.
GithubWrites == <<"branch", "commit", "pull_request">>
Downstreams ==
    {[fetch_ok |-> f, raised |-> r, done |-> d] :
        f \in BOOLEAN, r \in BOOLEAN, d \in 0..Len(GithubWrites)}

\* the response of a handler that called nothing
Answer(status, msg) ==
    [status |-> status, msg |-> msg, processed |-> FALSE, writes |-> {}]

\* the response once the event passed the filter: the fetch, then
\* process_merged_pr; an exception of either becomes a 500
ProcessMergedPr(down) ==
    IF ~down.fetch_ok THEN Answer(500, "error")
    ELSE IF down.raised
         THEN [status |-> 500, msg |-> "error", processed |-> TRUE,
               writes |-> {GithubWrites[k] : k \in 1..down.done}]
         ELSE [status |-> 200, msg |-> "success", processed |-> TRUE,
               writes |-> {GithubWrites[k] : k \in 1..Len(GithubWrites)}]

\* api/index.py, github_webhook: POST /webhook
GithubWebhook(secret, header, e, down) ==
    LET signature == IF header = <<>> THEN EmptySignature ELSE header[1]
    IN IF secret # "" /\ ~VerifyWebhookSignature(secret, e, signature)
       THEN Answer(401, "invalid signature")
       ELSE IF ~e.has_pr THEN Answer(200, "ignored")
       ELSE IF ClosedAndMerged(e) THEN ProcessMergedPr(down)
       ELSE Answer(200, "ignored")

\* person_3/github_hands.py, github_webhook: POST /webhook/github
GithubWebhookHands(secret, header, e, down) ==
    IF header # <<>> /\ ~VerifyWebhookSignature(secret, e, header[1])
    THEN Answer(401, "invalid signature")
    ELSE IF e.event # "pull_request" THEN Answer(200, "ignored")
    ELSE IF ClosedAndMerged(e) THEN ProcessMergedPr(down)
    ELSE Answer(200, "skipped")

Handlers == {"api/index.py", "person_3/github_hands.py"}

\* a request arrives at one of the two services and is answered
Webhook(handler, header, e, down) ==
    /\ ~hook.handled
    /\ LET answer == IF handler = "api/index.py"
                     THEN GithubWebhook(hook.secret, header, e, down)
                     ELSE GithubWebhookHands(hook.secret, header, e, down)
       IN hook' = [secret |-> hook.secret, handled |-> TRUE, handler |-> handler,
                   header |-> header, event |-> e, answer |-> answer]
    /\ UNCHANGED <<storeVars, found, sim, kg, built>>

InitWebhook ==
    /\ StoreIdle
    /\ found = NoFound /\ sim = NoSim /\ kg = NoGraph /\ built = NoBuild
    /\ \E secret \in Secrets : hook = [secret |-> secret, handled |-> FALSE]

NextWebhook ==
    \E h \in Handlers, e \in Events, down \in Downstreams :
        \E header \in SignatureHeaders(hook.secret, e) : Webhook(h, header, e, down)

SpecWebhook == InitWebhook /\ [][NextWebhook]_vars

\* the header carries "sha256=" plus the HMAC-SHA256 of the body under the secret
RightSignature ==
    hook.header = <<Signed(hook.secret, hook.event)>>

\* C26: in both handlers, with GITHUB_WEBHOOK_SECRET configured, a request
\* whose X-Hub-Signature-256 header is missing or is not "sha256=" plus the
\* HMAC-SHA256 of the body is answered 401 and process_merged_pr is not called
C26_BadSignatureRejected ==
    (hook.handled /\ hook.secret # "" /\ ~RightSignature) =>
        (hook.answer.status = 401 /\ ~hook.answer.processed)

\* a pull-request event whose action is closed and whose pull request is merged
MergedPullRequest(e) ==
    e.event = "pull_request" /\ e.has_pr /\ e.action = "closed" /\ e.merged = "true"

\* C27 as stated: process_merged_pr is called only for a closed and merged
\* pull-request event, and every other event is answered ignored or skipped
\* with no write to GitHub
C27_OthersIgnored ==
    hook.handled =>
        /\ hook.answer.processed => MergedPullRequest(hook.event)
        /\ ~MergedPullRequest(hook.event) =>
             /\ hook.answer.msg \in {"ignored", "skipped"}
             /\ hook.answer.writes = {}

\* C27, amended: process_merged_pr is called only for a closed and merged
\* pull-request event; every other event is answered 401 when its signature
\* is refused and ignored or skipped otherwise, in both cases with no write
\* to GitHub
C27_OthersIgnoredOrRejected ==
    hook.handled =>
        /\ hook.answer.processed => MergedPullRequest(hook.event)
        /\ ~MergedPullRequest(hook.event) =>
             /\ hook.answer.status = 401 \/ hook.answer.msg \in {"ignored", "skipped"}
             /\ hook.answer.status = 401 =>
                  hook.secret # "" /\ ~RightSignature
             /\ ~hook.answer.processed
             /\ hook.answer.writes = {}

\* a closed pull request that was not merged arrives with the right
\* signature and is answered skipped, nothing written
C27_Witness ==
    /\ hook.handled /\ hook.secret # "" /\ RightSignature
    /\ hook.event.event = "pull_request" /\ hook.event.action = "closed"
    /\ hook.event.merged = "false"
    /\ hook.answer.msg = "skipped" /\ hook.answer.writes = {}

\* ------------------------------------------------------------------ two repositories
\* index_repo, build_graph and find_relevant_docs for r1 over a database that
\* holds the chunks and the graph of r2, both made from the corpus "docs".
InitRepos == InitGraph

\* the one caller that indexes r1 here: its calls are single-flight
Writers == {"w1"}

NextRepos ==
    \/ \E p \in Writers, rp \in GraphPaths, r \in Targets :
         \E resps \in RespChoices(fs[rp], FALSE) : IndexRepo(p, rp, r, FALSE, resps)
    \/ \E p \in Writers : EmbedBatch(p)
    \/ \E p \in Writers : EmbedRaises(p)
    \/ \E p \in Writers : DeleteOld(p)
    \/ \E p \in Writers : InsertNew(p)
    \/ \E p \in Writers : InsertRaises(p)
    \/ \E rp \in {"twice", "nomd"}, r \in Targets :
         \E resp \in {g \in GraphResponses : ~g.ok \/ Len(g.json.functions) = 1} :
            BuildGraph(rp, r, [k \in 1..CountSections(MdFiles(fs[rp])) |-> resp])
    \/ \E r \in Targets, t \in DiffTexts : Find(r, t, TRUE, DefaultTopK, NoMinScore)

SpecRepos == InitRepos /\ [][NextRepos]_vars

\* the file_path values of the stored chunks of repo_name
FilePathsOf(col, repo_name) ==
    {d.file_path : d \in Range(StoreOf(col, repo_name))}

\* C30: no step of index_repo or build_graph for r1 adds, removes or alters
\* a stored chunk or a graph record of r2, and every file_path a
\* find_relevant_docs call for r1 returns is the file_path of a stored chunk
\* of r1
C30_OtherRepoUntouched ==
    [][/\ StoreOf(readme_chunks', "r2") = StoreOf(readme_chunks, "r2")
       /\ \A c \in DOMAIN kg : GraphOf(kg'[c], "r2") = GraphOf(kg[c], "r2")
       /\ (hits' # hits /\ hits'.repo_name = "r1") =>
            \A i \in 1..Len(hits'.result) :
                hits'.result[i][1] \in FilePathsOf(readme_chunks, "r1")]_vars

\* r1 was indexed and its graph built from a corpus whose only file r2 does
\* not have, a find for r1 returned that file, and the chunks and the graph
\* of r2 are those of the start
C30_Witness ==
    /\ Found /\ hits.repo_name = "r1" /\ hits.result # <<>>
    /\ FilePathsOf(readme_chunks, "r1") \cap FilePathsOf(readme_chunks, "r2") = {}
    /\ last["r1"].outcome = "returned" /\ last["r1"].at = "done"
    /\ built.outcome = "returned" /\ built.repo_name = "r1"
    /\ GraphOf(kg.knowledge_entities, "r1") # <<>>
    /\ StoreOf(readme_chunks, "r2") = Indexed("docs", "r2")
    /\ GraphOf(kg.knowledge_entities, "r2") # <<>>

====
